---- MODULE Spec2Model ----
(***************************************************************************)
(* Model of autodoc's watch scheduler (src/src/watcher.rs) and metadata    *)
(* resolver (src/src/discovery/mod.rs, src/src/config/mod.rs).             *)
(*                                                                         *)
(* Spec / FairSpec : FileWatcher::watch_and_build with the notification    *)
(*                   thread that feeds its mpsc channel.                   *)
(* MergeSpec       : MetadataParser::merge_metadata applied to a sorted    *)
(*                   list of parsed fragments.                             *)
(* ParseSpec       : MetadataParser::extract_frontmatter applied to the    *)
(*                   content of one file.                                  *)
(* DiscoverSpec    : FileDiscovery::discover_all run over one project      *)
(*                   root again and again, the walk in any order.          *)
(* ArgsSpec        : the argument list a builder hands to the converter.   *)
(* CmdSpec         : one run of `status`, `build <format>`, `build all`    *)
(*                   or one build cycle of `build <format> --watch`.       *)
(***************************************************************************)
EXTENDS Integers, Sequences, FiniteSets, TLC

\* ------------------------------------------------------------------ bounds
\* Events the notification thread delivers in one session.
MaxEvents == 2
\* Events held by the channel at once (std::sync::mpsc is unbounded).
MaxQueue == 2
\* Fragments in the project root.
MaxFrags == 3
\* Distinct values a metadata key takes (Some(1) .. Some(MaxVal)).
MaxVal == 2
\* Tokens (delimiters, line breaks, lines) in the content of a parsed file.
MaxTokens == 7
\* Entries of the project root a discovery pass walks.
MaxFiles == 3
\* Bytes the converter writes to its error stream.
MaxErrBytes == 2

\* ------------------------------------------------------- filesystem events
\* notify::EventKind, the variants a backend reports.  A rename is reported
\* as Modify(Name(_)), so it is of kind "Modify".
EventKinds == {"Create", "Modify", "Remove", "Access"}

\* The paths carried by the events of the model.
EventPaths ==
    {"01-intro.md", "refs.yaml", "meta.yml", "notes.txt", "Makefile",
     "output", "output/document.pdf", "output/document.docx", "output/document.html"}

\* Path::extension of the paths above ("" stands for None).
Extension(path) ==
    CASE path = "01-intro.md" -> "md"
      [] path = "refs.yaml"   -> "yaml"
      [] path = "meta.yml"    -> "yml"
      [] path = "notes.txt"   -> "txt"
      [] path = "output/document.pdf"  -> "pdf"
      [] path = "output/document.docx" -> "docx"
      [] path = "output/document.html" -> "html"
      [] OTHER                -> ""

\* Event.paths of the events of the model: one path or several paths.
PathLists ==
    { <<"01-intro.md">>, <<"notes.txt">>, <<"Makefile">>,
      <<"notes.txt", "refs.yaml">>, <<"meta.yml", "01-intro.md">> }

\* The artifact a build cycle writes: output_dir.join("<name>.<format>").
ArtifactPaths == {"output/document.pdf", "output/document.docx", "output/document.html"}

\* What a build cycle writes below the watched directory: the output
\* directory (ensure_output_dir) and the artifact (the converter's -o).
WrittenPaths == {"output"} \cup ArtifactPaths

\* The events the watcher reports for the writes of a build cycle: the
\* output directory is created, the artifact is written.
WriteEvents ==
    {[kind |-> "Create", paths |-> <<"output">>]}
        \cup [kind : {"Modify"}, paths : {<<p>> : p \in ArtifactPaths}]

Events == [kind : EventKinds, paths : PathLists]

\* What the trigger slot holds while no event started the build.
NoEvent == [kind |-> "None", paths |-> <<>>]

\* FileWatcher::should_rebuild, the variant that lets any extension through.
ShouldRebuildAnyExt(path) == Extension(path) # ""

\* FileWatcher::should_rebuild
should_rebuild(path) == Extension(path) \in {"md", "yaml", "yml"}

\* The `for path in event.paths` scan: does it reach a path that rebuilds?
ScanPaths(paths) == \E i \in 1..Len(paths) : should_rebuild(paths[i])

\* The scan without the `break`: one build_format call per path that rebuilds.
ScanBuildsNoBreak(paths) ==
    Cardinality({i \in 1..Len(paths) : should_rebuild(paths[i])})

\* The build_format calls of one scan: the first path that rebuilds gets the
\* call and the `break` ends the scan.
ScanBuilds(paths) == IF ScanPaths(paths) THEN 1 ELSE 0

\* The match on event.kind, the variant without a condition on the kind.
KindMatchesAny(kind) == TRUE

\* The match on event.kind: Modify(_) | Create(_).
KindMatches(kind) == kind \in {"Modify", "Create"}

\* An event for which the loop body calls build_format.
Triggers(e) == KindMatches(e.kind) /\ ScanPaths(e.paths)

\* Result<()> of build_format: success, or the error of the failing stage.
BuildOutcomes == {"ok", "walkdir_error", "yaml_error", "no_markdown", "converter_failed"}

\* ------------------------------------------------------ DocumentMetadata
\* The Option fields of DocumentMetadata, in declaration order.
KnownKeys ==
    { "title", "author", "date", "subtitle", "lang", "babel_lang",
      "top_level_division", "numbersections", "secnumdepth", "toc",
      "toc_depth", "lof", "lot", "documentclass", "classoption", "geometry",
      "fontsize", "mainfont", "sansfont", "monofont", "bibliography", "csl",
      "link_citations", "colorlinks", "linkcolor", "urlcolor", "citecolor",
      "book" }

\* A key no field is declared for: #[serde(flatten)] puts it into `custom`.
CustomKeys == {"x-publisher"}

\* The keys of a front-matter block; `custom` is kept flattened, an absent
\* entry of the map reading as None.
AllKeys == KnownKeys \cup CustomKeys

\* Option<T>::None; Some(v) is v, for v in 1..MaxVal.
None == 0

\* DocumentMetadata::default(): the derived Default, every field None and
\* `custom` empty.
DefaultMetadata == [k \in AllKeys |-> None]

\* A front-matter block that sets the one key k.
SingleKey(k, v) == [DefaultMetadata EXCEPT ![k] = v]

\* ------------------------------------------------------------ file names
\* File names as sequences of character codes.
Name_00_intro == <<48, 48, 45, 105, 110, 116, 114, 111, 46, 109, 100>>
Name_00_setup == <<48, 48, 45, 115, 101, 116, 117, 112, 46, 109, 100>>
Name_02_chapter == <<48, 50, 45, 99, 104, 97, 112, 116, 101, 114, 46, 109, 100>>
Name_10_appendix == <<49, 48, 45, 97, 112, 112, 101, 110, 100, 105, 120, 46, 109, 100>>

\* The .md files the project root may hold.
FragNames == {Name_00_intro, Name_00_setup, Name_02_chapter, Name_10_appendix}

\* The reserved file name of merge_metadata, "00-setup.md".
SetupName == <<48, 48, 45, 115, 101, 116, 117, 112, 46, 109, 100>>

IsDigit(c) == c \in 48..57

IsSpace(c) == c = 32

Sign(x, y) == IF x < y THEN -1 ELSE IF x > y THEN 1 ELSE 0

RECURSIVE NatordFrom(_, _, _, _)
RECURSIVE NatordDigitsLeft(_, _, _, _)
RECURSIVE NatordDigitsRight(_, _, _, _, _)

\* natord: a digit run read left-aligned (one of the runs starts with 0).
NatordDigitsLeft(a, b, i, j) ==
    IF a[i] # b[j] THEN Sign(a[i], b[j])
    ELSE LET la == i + 1 <= Len(a) /\ IsDigit(a[i + 1])
             lb == j + 1 <= Len(b) /\ IsDigit(b[j + 1])
         IN  IF la /\ lb THEN NatordDigitsLeft(a, b, i + 1, j + 1)
             ELSE IF la THEN 1
             ELSE IF lb THEN -1
             ELSE NatordFrom(a, b, i + 1, j + 1)

\* natord: a digit run read right-aligned; the longer run is the greater,
\* runs of equal length compare by their first difference.
NatordDigitsRight(a, b, i, j, last) ==
    LET cur == IF last = 0 THEN Sign(a[i], b[j]) ELSE last
        la == i + 1 <= Len(a) /\ IsDigit(a[i + 1])
        lb == j + 1 <= Len(b) /\ IsDigit(b[j + 1])
    IN  IF la /\ lb THEN NatordDigitsRight(a, b, i + 1, j + 1, cur)
        ELSE IF la THEN 1
        ELSE IF lb THEN -1
        ELSE IF cur # 0 THEN cur
        ELSE NatordFrom(a, b, i + 1, j + 1)

\* natord::compare from positions i of a and j of b: -1, 0, 1 for Less,
\* Equal, Greater.
NatordFrom(a, b, i, j) ==
    IF i <= Len(a) /\ IsSpace(a[i]) THEN NatordFrom(a, b, i + 1, j)
    ELSE IF j <= Len(b) /\ IsSpace(b[j]) THEN NatordFrom(a, b, i, j + 1)
    ELSE IF i > Len(a) /\ j > Len(b) THEN 0
    ELSE IF i > Len(a) THEN -1
    ELSE IF j > Len(b) THEN 1
    ELSE IF IsDigit(a[i]) /\ IsDigit(b[j])
         THEN IF a[i] = 48 \/ b[j] = 48
              THEN NatordDigitsLeft(a, b, i, j)
              ELSE NatordDigitsRight(a, b, i, j, 0)
    ELSE IF a[i] # b[j] THEN Sign(a[i], b[j])
    ELSE NatordFrom(a, b, i + 1, j + 1)

\* Byte-wise comparison of two names.
RECURSIVE LexFrom(_, _, _)
LexFrom(a, b, i) ==
    IF i > Len(a) /\ i > Len(b) THEN 0
    ELSE IF i > Len(a) THEN -1
    ELSE IF i > Len(b) THEN 1
    ELSE IF a[i] # b[i] THEN Sign(a[i], b[i])
    ELSE LexFrom(a, b, i + 1)

\* natord::compare, the variant that compares byte by byte.
LexCompare(a, b) == LexFrom(a, b, 1)

\* natord::compare(a, b)
NatordCompare(a, b) == NatordFrom(a, b, 1, 1)

\* The name lists files.sort_by(natord::compare) can leave: the file names
\* of one directory are distinct, so the sorted list is strictly ascending.
SortedNameLists ==
    UNION { { s \in [1..n -> FragNames] :
                \A i, j \in 1..n : i < j => NatordCompare(s[i], s[j]) < 0 }
            : n \in 0..MaxFrags }

\* The keys a metadata value sets.
KeysSet(md) == {k \in AllKeys : md[k] # None}

\* The key sets (one or two keys) the front-matter blocks of one fragment
\* list draw on.
KeyPairs == {{k1, k2} : k1 \in AllKeys, k2 \in AllKeys}

\* The front-matter blocks over the keys K: no key, or one key with a value.
FrontMatters(K) ==
    {DefaultMetadata} \cup {SingleKey(k, v) : k \in K, v \in 1..MaxVal}

\* MarkdownFile, the fields merge_metadata reads: path.file_name(), metadata.
MarkdownFile(n, md) == [name |-> n, metadata |-> md]

\* ---------------------------------------------------------- file content
\* File content as a sequence of tokens: the delimiter "---", the line break,
\* two well-formed YAML lines and one YAML line with an unclosed bracket.
Tokens == {"---", "\n", "title: A", "title: B", "title: [A"}

\* The tokens ParseSpec builds its contents from.
ParseTokens == {"---", "\n", "title: A", "title: [A"}

\* What parsing a file gives: Ok((metadata, body)) or Err(AutoDocError::Yaml).
ParseOk(md, body) == [ok |-> TRUE, metadata |-> md, body |-> body]

ParseErr == [ok |-> FALSE, metadata |-> DefaultMetadata, body |-> <<>>]

\* The value the YAML line gives `title`.
TitleOf(line) == IF line = "title: A" THEN 1 ELSE 2

\* serde_yaml::from_str::<DocumentMetadata>(yaml_content): the results it can
\* have.  A region with the unclosed bracket does not parse; a region that is
\* one well-formed line, blank lines aside, parses to that line's title; for
\* any other region (empty, repeated keys, a stray "---") the outcome is left
\* open between failure and the metadata a parse could give.
YamlOutcomes(region) ==
    LET lines == {i \in 1..Len(region) : region[i] # "\n"} IN
    IF \E i \in lines : region[i] = "title: [A" THEN {"err"}
    ELSE IF Cardinality(lines) = 1
            /\ \A i \in lines : region[i] \in {"title: A", "title: B"}
         THEN {"ok"}
    ELSE {"ok", "err"}

\* The metadata of a region that parsed.
YamlMetadata(region) ==
    LET lines == {i \in 1..Len(region) : region[i] \in {"title: A", "title: B"}} IN
    IF lines = {} THEN DefaultMetadata
    ELSE SingleKey("title", TitleOf(region[CHOOSE i \in lines : \A j \in lines : i <= j]))

\* content.strip_prefix("---\n") is Some, the variant that accepts a "---"
\* anywhere in the content.
HasOpeningAnywhere(c) == \E i \in 1..Len(c) : c[i] = "---"

\* content.strip_prefix("---\n") is Some.
HasOpening(c) == Len(c) >= 2 /\ c[1] = "---" /\ c[2] = "\n"

\* stripped.find("\n---\n"): the index of the first match, 0 for None.
FindClosing(stripped) ==
    LET hits == {i \in 1..(Len(stripped) - 2) :
                    /\ stripped[i] = "\n"
                    /\ stripped[i + 1] = "---"
                    /\ stripped[i + 2] = "\n"} IN
    IF hits = {} THEN 0 ELSE CHOOSE i \in hits : \A j \in hits : i <= j

\* MetadataParser::extract_frontmatter: the results it can have.
extract_frontmatter(c) ==
    IF HasOpening(c)
    THEN LET stripped == SubSeq(c, 3, Len(c))
             end == FindClosing(stripped)
         IN  IF end # 0
             THEN LET yaml == SubSeq(stripped, 1, end - 1)
                      rest == SubSeq(stripped, end + 3, Len(stripped))
                  IN  {IF o = "ok" THEN ParseOk(YamlMetadata(yaml), rest) ELSE ParseErr
                         : o \in YamlOutcomes(yaml)}
             ELSE {ParseOk(DefaultMetadata, c)}
    ELSE {ParseOk(DefaultMetadata, c)}

\* The contents of ParseSpec: every token sequence up to MaxTokens.
Contents == UNION {[1..n -> ParseTokens] : n \in 0..MaxTokens}

\* ------------------------------------------------------------- discovery
\* More entries of the project root: "9-notes.md", "README.md",
\* "README_md.md", "[draft.md", "a b.md", "ab.md" and "notes.txt".
Name_9_notes == <<57, 45, 110, 111, 116, 101, 115, 46, 109, 100>>
Name_README == <<82, 69, 65, 68, 77, 69, 46, 109, 100>>
Name_README_md == <<82, 69, 65, 68, 77, 69, 95, 109, 100, 46, 109, 100>>
Name_draft == <<91, 100, 114, 97, 102, 116, 46, 109, 100>>
Name_a_b == <<97, 32, 98, 46, 109, 100>>
Name_ab == <<97, 98, 46, 109, 100>>
Name_notes_txt == <<110, 111, 116, 101, 115, 46, 116, 120, 116>>

\* The entries WalkDir::new(".").max_depth(1) may yield.
RootNames ==
    { Name_00_setup, Name_02_chapter, Name_10_appendix, Name_9_notes,
      Name_README, Name_README_md, Name_draft, Name_a_b, Name_ab,
      Name_notes_txt }

\* Exclusion patterns: "README.md" (ProjectConfig::default) and "[draft",
\* which is not a regular expression.
Pattern_README == <<82, 69, 65, 68, 77, 69, 46, 109, 100>>
Pattern_draft == <<91, 100, 114, 97, 102, 116>>

\* The values of ProjectConfig::exclude_files.
ExcludeLists == {<<Pattern_README>>, <<Pattern_README, Pattern_draft>>}

\* File contents: front-matter with a title, front-matter that is not YAML.
ContentTitleA == <<"---", "\n", "title: A", "\n", "---", "\n">>
ContentTitleB == <<"---", "\n", "title: B", "\n", "---", "\n">>
ContentMalformed == <<"---", "\n", "title: [A", "\n", "---", "\n">>

FileContents == {ContentTitleA, ContentTitleB, ContentMalformed}

\* path.extension().is_some_and(|ext| ext == "md")
HasMdExtension(n) ==
    Len(n) >= 4 /\ SubSeq(n, Len(n) - 2, Len(n)) = <<46, 109, 100>>

\* Regex::new(pattern) is Ok: of the patterns here, those without an
\* unclosed "[".
RegexCompiles(p) ==
    \A i \in 1..Len(p) : p[i] = 91 => \E j \in (i + 1)..Len(p) : p[j] = 93

\* The pattern matches s at position i; in a compiled pattern "." stands for
\* any character, in an escaped one every character stands for itself.
MatchesAt(p, s, i, compiled) ==
    /\ i + Len(p) - 1 <= Len(s)
    /\ \A k \in 1..Len(p) : p[k] = s[i + k - 1] \/ (compiled /\ p[k] = 46)

\* regex.is_match(&filename): a match anywhere in the name.
is_match(p, s) == \E i \in 1..(Len(s) + 1) : MatchesAt(p, s, i, RegexCompiles(p))

\* FileDiscovery::should_exclude, the variant that compares the whole name.
ShouldExcludeExact(patterns, n) == \E i \in 1..Len(patterns) : patterns[i] = n

\* FileDiscovery::should_exclude
should_exclude(patterns, n) == \E i \in 1..Len(patterns) : is_match(patterns[i], n)

\* One step of the stable sort: f goes behind the last file that does not
\* compare Greater.
SortInsert(sorted, f) ==
    LET le == {i \in 1..Len(sorted) : NatordCompare(sorted[i].name, f.name) <= 0}
        k == IF le = {} THEN 0 ELSE CHOOSE i \in le : \A j \in le : j <= i
    IN  SubSeq(sorted, 1, k) \o <<f>> \o SubSeq(sorted, k + 1, Len(sorted))

RECURSIVE SortFrom(_, _, _)
SortFrom(sorted, fs, i) ==
    IF i > Len(fs) THEN sorted ELSE SortFrom(SortInsert(sorted, fs[i]), fs, i + 1)

\* files.sort_by(|a, b| natord::compare(name(a), name(b))): a stable sort.
sort_by(fs) == SortFrom(<<>>, fs, 1)

\* What discover_all returns.
DiscoverOk(fs) == [ok |-> TRUE, err |-> "none", markdown_files |-> fs]

DiscoverErr(e) == [ok |-> FALSE, err |-> e, markdown_files |-> <<>>]

\* No discovery has run.
NoResult == DiscoverErr("none")

\* MetadataParser::parse_file: the results it can have, the body left out.
parse_file(c) == {[r EXCEPT !.body = <<>>] : r \in extract_frontmatter(c)}

RECURSIVE ParseChoices(_, _)
\* One result of parse_file for every entry in S of the root d.
ParseChoices(d, S) ==
    IF S = {} THEN {<<>>}
    ELSE LET n == CHOOSE x \in S : TRUE IN
         {(n :> r) @@ f : r \in parse_file(d[n]), f \in ParseChoices(d, S \ {n})}

\* The test of discover_and_parse_markdown_files on every entry of the root:
\* extension md and not excluded.
Eligible(d, patterns) ==
    [n \in DOMAIN d |-> HasMdExtension(n) /\ ~should_exclude(patterns, n)]

RECURSIVE WalkFromSkip(_, _, _, _, _)
\* The loop of discover_and_parse_markdown_files, the variant that leaves out
\* a file that does not parse.
WalkFromSkip(eligible, order, parses, i, acc) ==
    IF i > Len(order) THEN DiscoverOk(sort_by(acc))
    ELSE LET n == order[i] IN
         IF eligible[n] /\ parses[n].ok
         THEN WalkFromSkip(eligible, order, parses, i + 1,
                           Append(acc, MarkdownFile(n, parses[n].metadata)))
         ELSE WalkFromSkip(eligible, order, parses, i + 1, acc)

RECURSIVE WalkFromParseFirst(_, _, _, _, _)
\* The loop of discover_and_parse_markdown_files, the variant that parses
\* every .md entry before it tests the exclusion.
WalkFromParseFirst(eligible, order, parses, i, acc) ==
    IF i > Len(order) THEN DiscoverOk(sort_by(acc))
    ELSE LET n == order[i] IN
         IF HasMdExtension(n) /\ ~parses[n].ok THEN DiscoverErr("yaml")
         ELSE IF eligible[n]
              THEN WalkFromParseFirst(eligible, order, parses, i + 1,
                                      Append(acc, MarkdownFile(n, parses[n].metadata)))
              ELSE WalkFromParseFirst(eligible, order, parses, i + 1, acc)

RECURSIVE WalkFrom(_, _, _, _, _)
\* The loop of discover_and_parse_markdown_files from entry i of the walk: an
\* entry that passes the test is parsed and pushed, a parse failure is
\* returned at once; the list is sorted at the end.
WalkFrom(eligible, order, parses, i, acc) ==
    IF i > Len(order) THEN DiscoverOk(sort_by(acc))
    ELSE LET n == order[i] IN
         IF eligible[n]
         THEN IF parses[n].ok
              THEN WalkFrom(eligible, order, parses, i + 1,
                            Append(acc, MarkdownFile(n, parses[n].metadata)))
              ELSE DiscoverErr("yaml")
         ELSE WalkFrom(eligible, order, parses, i + 1, acc)

\* FileDiscovery::discover_all when no walk fails.
discover_all(eligible, order, parses) == WalkFrom(eligible, order, parses, 1, <<>>)

RECURSIVE WalkOrders(_)
\* The orders in which a walk can yield the entries of S.
WalkOrders(S) ==
    IF S = {} THEN {<<>>}
    ELSE UNION {{<<n>> \o o : o \in WalkOrders(S \ {n})} : n \in S}

\* The project roots: up to MaxFiles entries, each with a content.
Roots ==
    UNION {[S -> FileContents] : S \in {T \in SUBSET RootNames : Cardinality(T) <= MaxFiles}}

\* --------------------------------------------------------------- builders
\* Language tags, split at "-": the values of `lang`.
LangTags ==
    << <<"de">>, <<"de", "AT">>, <<"fr">>, <<"es">>, <<"it">>, <<"pt">>,
       <<"nl">>, <<"ru">>, <<"en", "GB">>, <<"xx">> >>

\* The values a front-matter block can give a key.
ValuesOf(k) == IF k = "lang" THEN 1..Len(LangTags) ELSE 1..MaxVal

\* The value of a boolean key: 1 is true, every other value false.
BoolOf(v) == v = 1

\* One argument of the converter: a literal text, a key with a literal text
\* or a metadata value behind "=", a bare metadata value, or a path.
Flag(t) == [key |-> "", text |-> t, val |-> None, path |-> <<>>]

KeyWord(k, t) == [key |-> k, text |-> t, val |-> None, path |-> <<>>]

KeyValue(k, v) == [key |-> k, text |-> "", val |-> v, path |-> <<>>]

Value(v) == [key |-> "", text |-> "", val |-> v, path |-> <<>>]

PathArg(n) == [key |-> "", text |-> "", val |-> None, path |-> n]

\* The files the templates directory may hold.
TemplateFiles == {"eisvogel.latex", "a.latex", "b.latex", "a.docx", "b.docx", "a.html", "b.html"}

\* path.extension() of a template file.
TemplateExtension(f) ==
    CASE f \in {"eisvogel.latex", "a.latex", "b.latex"} -> "latex"
      [] f \in {"a.docx", "b.docx"} -> "docx"
      [] OTHER -> "html"

\* The contents of the templates directory (empty also when it is missing).
TemplateDirs ==
    { {}, {"eisvogel.latex"}, {"eisvogel.latex", "a.latex"}, {"a.latex", "b.latex"},
      {"a.docx", "b.docx"}, {"a.html", "b.html", "a.latex"} }

\* find_template, find_docx_template, find_html_template: the templates they
\* can return, "none" for None.  eisvogel.latex is preferred for pdf; otherwise
\* the first entry of read_dir with the extension of the format, in whatever
\* order read_dir yields the entries.
FindTemplate(format, tdir) ==
    LET ext == IF format = "pdf" THEN "latex" ELSE format
        hits == {f \in tdir : TemplateExtension(f) = ext}
    IN  IF format = "pdf" /\ "eisvogel.latex" \in tdir THEN {"eisvogel.latex"}
        ELSE IF hits = {} THEN {"none"}
        ELSE hits

\* PdfBuilder::detect_babel_lang, the variant without the table.
DetectBabelAlwaysEnglish(lang) == "english"

\* PdfBuilder::detect_babel_lang
detect_babel_lang(lang) ==
    CASE Head(lang) = "de" -> "ngerman"
      [] Head(lang) = "fr" -> "french"
      [] Head(lang) = "es" -> "spanish"
      [] Head(lang) = "it" -> "italian"
      [] Head(lang) = "pt" -> "portuguese"
      [] Head(lang) = "nl" -> "dutch"
      [] Head(lang) = "ru" -> "russian"
      [] OTHER -> "english"

\* PdfBuilder::add_metadata_args
add_metadata_args(md) ==
    (IF md["title"] # None
     THEN <<Flag("--metadata"), KeyValue("title", md["title"])>>
     ELSE <<Flag("--metadata"), KeyWord("title", "Document")>>)
    \o (IF md["author"] # None
        THEN <<Flag("--metadata"), KeyValue("author", md["author"])>> ELSE <<>>)
    \o (IF md["date"] # None
        THEN <<Flag("--metadata"), KeyValue("date", md["date"])>> ELSE <<>>)
    \o (IF md["lang"] # None
        THEN <<Flag("--metadata"), KeyValue("lang", md["lang"])>>
             \o (IF md["babel_lang"] = None
                 THEN <<Flag("--metadata"),
                        KeyWord("babel-lang", detect_babel_lang(LangTags[md["lang"]]))>>
                 ELSE <<>>)
        ELSE <<>>)
    \o (IF md["babel_lang"] # None
        THEN <<Flag("--metadata"), KeyValue("babel-lang", md["babel_lang"])>> ELSE <<>>)
    \o (IF md["documentclass"] # None
        THEN <<Flag("--metadata"), KeyValue("documentclass", md["documentclass"])>>
        ELSE <<>>)
    \o (IF md["book"] # None /\ BoolOf(md["book"])
        THEN <<Flag("--metadata"), KeyWord("book", "true")>> ELSE <<>>)

\* metadata.numbersections.unwrap_or(false)
NumberSectionsOptIn(md) == md["numbersections"] # None /\ BoolOf(md["numbersections"])

\* metadata.numbersections.unwrap_or(true)
NumberSections(md) == md["numbersections"] = None \/ BoolOf(md["numbersections"])

\* The positional inputs, the variant that lists the fragments backwards.
InputArgsReversed(fs) == [i \in 1..Len(fs) |-> PathArg(fs[Len(fs) + 1 - i].name)]

\* The positional inputs: file.path of every fragment, in order.
InputArgs(fs) == [i \in 1..Len(fs) |-> PathArg(fs[i].name)]

\* The option that names the template, when one was found.
TemplateArgs(option, template) ==
    IF template = "none" THEN <<>> ELSE <<Flag(option), Flag(template)>>

\* config.output_dir.join(format!("{}.<format>", config.name))
OutputPath(format) ==
    CASE format = "pdf" -> "output/document.pdf"
      [] format = "docx" -> "output/document.docx"
      [] OTHER -> "output/document.html"

\* PdfBuilder::build_pandoc_args
PdfArgs(fs, md, template) ==
    <<Flag("--standalone"), Flag("--listings"), Flag("--pdf-engine"), Flag("xelatex")>>
    \o TemplateArgs("--template", template)
    \o <<Flag("--citeproc")>>
    \o <<Flag("--top-level-division"),
         IF md["top_level_division"] # None
         THEN Value(md["top_level_division"]) ELSE Flag("section")>>
    \o (IF NumberSections(md) THEN <<Flag("--number-sections")>> ELSE <<>>)
    \o add_metadata_args(md)
    \o InputArgs(fs)
    \o <<Flag("-o"), Flag(OutputPath("pdf"))>>

\* DocxBuilder::build_pandoc_args
DocxArgs(fs, md, template) ==
    <<Flag("--standalone"), Flag("--to"), Flag("docx")>>
    \o TemplateArgs("--reference-doc", template)
    \o <<Flag("--citeproc")>>
    \o (IF NumberSections(md) THEN <<Flag("--number-sections")>> ELSE <<>>)
    \o InputArgs(fs)
    \o <<Flag("-o"), Flag(OutputPath("docx"))>>

\* HtmlBuilder::build_pandoc_args
HtmlArgs(fs, md, template) ==
    <<Flag("--standalone"), Flag("--to"), Flag("html5"), Flag("--self-contained"),
      Flag("--citeproc")>>
    \o (IF NumberSections(md) THEN <<Flag("--number-sections")>> ELSE <<>>)
    \o TemplateArgs("--template", template)
    \o InputArgs(fs)
    \o <<Flag("-o"), Flag(OutputPath("html"))>>

\* build_pandoc_args of the builder of a format.
build_pandoc_args(format, fs, md, template) ==
    CASE format = "pdf" -> PdfArgs(fs, md, template)
      [] format = "docx" -> DocxArgs(fs, md, template)
      [] OTHER -> HtmlArgs(fs, md, template)

\* The key sets the front-matter blocks of the builders' inputs draw on: one
\* key, or lang with babel_lang.
ArgKeySets == {{k} : k \in AllKeys} \cup {{"lang", "babel_lang"}}

\* The front-matter blocks over the keys K, lang ranging over the tags.
ArgFrontMatters(K) ==
    {DefaultMetadata} \cup UNION {{SingleKey(k, v) : v \in ValuesOf(k)} : k \in K}

\* The names of the builders' inputs, as discovery sorts them.
ArgNameLists ==
    { <<Name_00_setup>>, <<Name_02_chapter>>, <<Name_00_setup, Name_02_chapter>> }

\* --------------------------------------------------------------- commands
Formats == {"pdf", "docx", "html"}

\* The entries that reach discover_all: the status command, the build
\* command without --watch, and FileWatcher::build_format.
Commands ==
    {[entry |-> "status", format |-> "none"]}
        \cup {[entry |-> "build", format |-> f] : f \in Formats \cup {"all"}}
        \cup {[entry |-> "watch", format |-> f] : f \in Formats}

NoCommand == [entry |-> "none", format |-> "none"]

\* An external tool: on the PATH and starting, not on the PATH, or on the
\* PATH but failing to start.
ToolStates == {"ok", "missing", "unstartable"}

ToolSets == [{"pandoc", "xelatex"} -> ToolStates]

\* The project roots the commands run in: empty, one fragment, one fragment
\* with front-matter that is not YAML, both, a README.md alone.
CmdRoots ==
    { <<>>,
      (Name_02_chapter :> ContentTitleA),
      (Name_02_chapter :> ContentMalformed),
      (Name_00_setup :> ContentTitleA) @@ (Name_02_chapter :> ContentMalformed),
      (Name_00_setup :> ContentTitleA) @@ (Name_02_chapter :> ContentTitleB),
      (Name_README :> ContentMalformed) }

\* Everything discover_all can return for a root.
DiscoverResults(d, patterns) ==
    {discover_all(Eligible(d, patterns), order, parses) :
        order \in WalkOrders(DOMAIN d), parses \in ParseChoices(d, DOMAIN d)}
        \cup {DiscoverErr("walkdir")}

\* The AutoDocError variant of a discovery error (the From impls).
ErrorOf(e) == IF e = "yaml" THEN "Yaml" ELSE "WalkDir"

\* DependencyChecker::validate_for_build: "ok" or the variant of its error.
\* check_all runs `--version` on every tool `which` finds and returns a Build
\* error when that fails to start; a missing tool the format requires gives
\* Dependency.
validate_for_build(format, t) ==
    IF t["pandoc"] = "unstartable" \/ t["xelatex"] = "unstartable" THEN "Build"
    ELSE IF \/ t["pandoc"] = "missing"
            \/ (format \in {"pdf", "all"} /\ t["xelatex"] = "missing")
         THEN "Dependency"
    ELSE "ok"

\* The builders a command runs, in order.
BuildersOf(format) == IF format = "all" THEN <<"pdf", "docx", "html">> ELSE <<format>>

\* Bytes of an error stream: "e", the two bytes of U+00E9, and 0xFF, which
\* no UTF-8 text holds.
ErrBytes == {101, 195, 169, 255}

\* output.stderr of a converter run.
ErrStreams == UNION {[1..n -> ErrBytes] : n \in 0..MaxErrBytes}

RECURSIVE LossyFrom(_, _)
\* String::from_utf8_lossy from byte i on, as code points: an ASCII byte and
\* a well-formed two-byte sequence decode, any other byte becomes U+FFFD.
LossyFrom(b, i) ==
    IF i > Len(b) THEN <<>>
    ELSE IF b[i] < 128 THEN <<b[i]>> \o LossyFrom(b, i + 1)
    ELSE IF b[i] \in 194..223 /\ i + 1 <= Len(b) /\ b[i + 1] \in 128..191
         THEN <<(b[i] - 192) * 64 + (b[i + 1] - 128)>> \o LossyFrom(b, i + 2)
    ELSE <<65533>> \o LossyFrom(b, i + 1)

\* String::from_utf8_lossy, the variant that gives the empty string.
FromUtf8Empty(b) == <<>>

\* String::from_utf8_lossy(&output.stderr)
from_utf8_lossy(b) == LossyFrom(b, 1)

\* What one call of builder.build did.
BuildRecord(format, started, status, res) ==
    [format |-> format, started |-> started, status |-> status, result |-> res]

\* The exit statuses the converter can have once started: the PDF engine is
\* needed for pdf.
ExitStatuses(format, t) ==
    IF format = "pdf" /\ t["xelatex"] # "ok" THEN {"nonzero"} ELSE {"zero", "nonzero"}

\* ------------------------------------------------------------------- state
VARIABLES
    pc,             \* where watch_and_build is
    queue,          \* the channel (tx, rx): events sent and not yet received
    senderAlive,    \* the callback holding tx still exists
    result,         \* what watch_and_build returned: "none" while running
    inflight,       \* build_format calls started and not yet returned
    cycles,         \* build_format calls started so far
    trigger,        \* the received event the running/last loop build is for
    lastOutcome,    \* Result of the last finished build_format call
    sent,           \* events delivered to the callback so far
    enq,            \* enq[b]: triggering events sent during build cycle b
    trig,           \* trig[b]: build cycles started for events sent during b
    watchErrLogged, \* the callback logged an Err it was handed
    files,          \* files: &[MarkdownFile], the argument of merge_metadata
    merged,         \* the DocumentMetadata merge_metadata returned
    mergeDone,      \* merge_metadata has returned
    content,        \* content: &str, the argument of extract_frontmatter
    parsed,         \* the Result extract_frontmatter returned
    parseDone,      \* extract_frontmatter has returned
    dir,            \* the project root: entry name -> file content
    exclude_files,  \* ProjectConfig::exclude_files
    found,          \* what the latest discover_all returned
    cmd,            \* the command that runs
    tools,          \* the external tools of the machine
    step,           \* where the command is
    exit,           \* its result: "ok" or the AutoDocError variant
    message,        \* the message of a Build error
    invoked,        \* the formats the converter was started for
    artifacts,      \* the formats whose artifact was written
    todo,           \* the builders still to run
    outputDir,      \* ensure_output_dir has run
    counted,        \* the "Markdown files:" count status printed, -1 for none
    stderr,         \* output.stderr of the converter run that failed
    detail,         \* the text behind "Pandoc failed: " in the Build message
    builds,         \* the calls of builder.build so far
    builder,        \* the format of the builder whose build runs
    templates,      \* the files of the templates directory
    args,           \* the arguments handed to Command::new("pandoc")
    argsDone        \* build has started the converter

\* The state of the watch session.
wvars == <<pc, queue, senderAlive, result, inflight, cycles, trigger,
           lastOutcome, sent, enq, trig, watchErrLogged>>

\* The state of the metadata resolver.
mvars == <<files, merged, mergeDone>>

\* The state of the front-matter parser.
pvars == <<content, parsed, parseDone>>

\* The state of file discovery.
dvars == <<dir, exclude_files, found>>

\* The state of a command.
cvars == <<cmd, tools, step, exit, message, invoked, artifacts, todo, outputDir, counted,
           stderr, detail, builds>>

\* The state of a builder.
avars == <<builder, templates, args, argsDone>>

\* Everything but the watch session.
xvars == <<mvars, pvars, dvars, cvars, avars>>

vars == <<wvars, mvars, pvars, dvars, cvars, avars>>

\* Index range of build cycles: the start-up one and one per event.
CycleIds == 0..(MaxEvents + 1)

\* No file is being parsed.
ParseIdle ==
    /\ content = <<>>
    /\ parsed = ParseErr
    /\ parseDone = FALSE

\* No discovery is requested.
DiscoverIdle ==
    /\ dir = <<>>
    /\ exclude_files = <<>>
    /\ found = NoResult

\* No builder runs.
ArgsIdle ==
    /\ builder = "none"
    /\ templates = {}
    /\ args = <<>>
    /\ argsDone = FALSE

\* No command runs.
CmdIdle ==
    /\ cmd = NoCommand
    /\ tools = [t \in {"pandoc", "xelatex"} |-> "ok"]
    /\ step = "idle"
    /\ exit = "none"
    /\ message = "none"
    /\ invoked = <<>>
    /\ artifacts = {}
    /\ todo = <<>>
    /\ outputDir = FALSE
    /\ counted = -1
    /\ stderr = <<>>
    /\ detail = <<>>
    /\ builds = <<>>

Init ==
    /\ pc = "idle"
    /\ queue = <<>>
    /\ senderAlive = TRUE
    /\ result = "none"
    /\ inflight = 0
    /\ cycles = 0
    /\ trigger = NoEvent
    /\ lastOutcome = "none"
    /\ sent = 0
    /\ enq = [b \in CycleIds |-> 0]
    /\ trig = [b \in CycleIds |-> 0]
    /\ watchErrLogged = FALSE
    /\ files = <<>>
    /\ merged = DefaultMetadata
    /\ mergeDone = FALSE
    /\ ParseIdle
    /\ DiscoverIdle
    /\ CmdIdle
    /\ ArgsIdle

\* ------------------------------------------------- watch_and_build, set-up
\* Watcher::new(..) and watcher.watch("."): on failure map_err(..)? returns.
Subscribe ==
    /\ pc = "idle"
    /\ \E ok \in BOOLEAN :
          IF ok
          THEN /\ pc' = "subscribed"
               /\ UNCHANGED <<senderAlive, result>>
          ELSE /\ pc' = "returned"
               /\ result' = "err"
               /\ senderAlive' = FALSE
    /\ UNCHANGED <<xvars, queue, inflight, cycles, trigger, lastOutcome, sent,
                   enq, trig, watchErrLogged>>

\* `self.build_format(format).await?` with the `?` dropped.
InitialBuildNextIgnoreErr(outcome) == "watching"

\* `self.build_format(format).await?`: where the start-up build leads.
InitialBuildNext(outcome) == IF outcome = "ok" THEN "watching" ELSE "returned"

\* The start-up call of build_format begins.
StartInitialBuild ==
    /\ pc = "subscribed"
    /\ pc' = "initial_build"
    /\ inflight' = inflight + 1
    /\ cycles' = cycles + 1
    /\ UNCHANGED <<xvars, queue, senderAlive, result, trigger, lastOutcome, sent,
                   enq, trig, watchErrLogged>>

\* The start-up call of build_format returns.
FinishInitialBuild ==
    /\ pc = "initial_build"
    /\ \E outcome \in BuildOutcomes :
          /\ lastOutcome' = IF outcome = "ok" THEN "ok" ELSE "err"
          /\ pc' = InitialBuildNext(outcome)
          /\ result' = IF pc' = "returned" THEN "err" ELSE result
          /\ senderAlive' = IF pc' = "returned" THEN FALSE ELSE senderAlive
    /\ inflight' = inflight - 1
    /\ UNCHANGED <<xvars, queue, cycles, trigger, sent, enq, trig, watchErrLogged>>

\* ---------------------------------------------------- watch_and_build, loop
\* The loop is at rx.recv(), the variant that also receives during a build.
AtRecvDuringBuild == pc \in {"watching", "building"}

\* The loop is at rx.recv().
AtRecv == pc = "watching"

\* What rx.recv() leaves in the channel, the variant that drains it.
AfterRecvDrain(q) == <<>>

\* What rx.recv() leaves in the channel: it takes the oldest event only.
AfterRecv(q) == Tail(q)

\* `if let Err(e) = build_format(..) { error!(..) }` with the error returned.
LoopBuildNextPropagate(outcome) == IF outcome = "ok" THEN "watching" ELSE "returned"

\* `if let Err(e) = build_format(..) { error!(..) } else { info!(..) }; break`
LoopBuildNext(outcome) == "watching"

\* `Err(e) => { error!(..); break }` with the break missing.
RecvErrNextContinue == "watching"

\* `Err(e) => { error!(..); break }` and then Ok(()).
RecvErrNext == "returned"

\* rx.recv() = Ok(event): the match on the kind, the scan of the paths and,
\* for the first path that should rebuild, the call of build_format.
Recv ==
    /\ AtRecv
    /\ queue # <<>>
    /\ LET e == Head(queue) IN
          /\ queue' = AfterRecv(queue)
          /\ IF Triggers(e)
             THEN /\ pc' = "building"
                  /\ inflight' = inflight + 1
                  /\ cycles' = cycles + ScanBuilds(e.paths)
                  /\ trigger' = [kind |-> e.kind, paths |-> e.paths]
                  /\ trig' = [trig EXCEPT ![e.during] = @ + 1]
             ELSE UNCHANGED <<pc, inflight, cycles, trigger, trig>>
    /\ UNCHANGED <<xvars, senderAlive, result, lastOutcome, sent, enq, watchErrLogged>>

\* rx.recv() = Err(_): every sender is gone and the channel is empty.
RecvDisconnected ==
    /\ AtRecv
    /\ queue = <<>>
    /\ ~senderAlive
    /\ pc' = RecvErrNext
    /\ result' = IF pc' = "returned" THEN "ok" ELSE result
    /\ UNCHANGED <<xvars, queue, senderAlive, inflight, cycles, trigger, lastOutcome,
                   sent, enq, trig, watchErrLogged>>

\* The call of build_format made in the loop returns.
FinishBuild ==
    /\ pc = "building"
    /\ \E outcome \in BuildOutcomes :
          /\ lastOutcome' = IF outcome = "ok" THEN "ok" ELSE "err"
          /\ pc' = LoopBuildNext(outcome)
          /\ result' = IF pc' = "returned" THEN "err" ELSE result
          /\ senderAlive' = IF pc' = "returned" THEN FALSE ELSE senderAlive
    /\ inflight' = inflight - 1
    /\ UNCHANGED <<xvars, queue, cycles, trigger, sent, enq, trig, watchErrLogged>>

\* ------------------------------------------------- the notification thread
\* The watcher exists and its callback can be called.
CallbackLive == senderAlive /\ pc \notin {"idle", "returned"}

\* A build_format call is executing.
Building == pc \in {"initial_build", "building"}

\* The callback is handed Ok(event): tx.send(event).
CallbackOk ==
    /\ CallbackLive
    /\ sent < MaxEvents
    /\ Len(queue) < MaxQueue
    /\ \E ev \in Events :
          LET d == IF Building THEN cycles ELSE 0 IN
          /\ queue' = Append(queue, [kind |-> ev.kind, paths |-> ev.paths,
                                     during |-> d])
          /\ enq' = IF Triggers(ev) THEN [enq EXCEPT ![d] = @ + 1] ELSE enq
    /\ sent' = sent + 1
    /\ UNCHANGED <<xvars, pc, senderAlive, result, inflight, cycles, trigger,
                   lastOutcome, trig, watchErrLogged>>

\* The callback is handed the event of a write of the running build cycle.
CallbackOwnWrite ==
    /\ CallbackLive
    /\ Building
    /\ sent < MaxEvents
    /\ Len(queue) < MaxQueue
    /\ \E ev \in WriteEvents :
          /\ queue' = Append(queue, [kind |-> ev.kind, paths |-> ev.paths,
                                     during |-> cycles])
          /\ enq' = IF Triggers(ev) THEN [enq EXCEPT ![cycles] = @ + 1] ELSE enq
    /\ sent' = sent + 1
    /\ UNCHANGED <<xvars, pc, senderAlive, result, inflight, cycles, trigger,
                   lastOutcome, trig, watchErrLogged>>

\* The callback is handed Err(e): error!("Watch error: ..") and nothing else.
CallbackErr ==
    /\ CallbackLive
    /\ watchErrLogged' = TRUE
    /\ UNCHANGED <<xvars, pc, queue, senderAlive, result, inflight, cycles, trigger,
                   lastOutcome, sent, enq, trig>>

\* The backend thread ends and drops the callback, and tx with it.
SenderDropped ==
    /\ CallbackLive
    /\ senderAlive' = FALSE
    /\ UNCHANGED <<xvars, pc, queue, result, inflight, cycles, trigger, lastOutcome,
                   sent, enq, trig, watchErrLogged>>

Next ==
    \/ Subscribe
    \/ StartInitialBuild
    \/ FinishInitialBuild
    \/ Recv
    \/ RecvDisconnected
    \/ FinishBuild
    \/ CallbackOk
    \/ CallbackOwnWrite
    \/ CallbackErr
    \/ SenderDropped

Spec == Init /\ [][Next]_vars

\* The scheduler is one sequential task that is always scheduled, and a
\* build_format call always returns; nothing is assumed of the producer.
FairSpec ==
    /\ Init /\ [][Next]_vars
    /\ WF_vars(Subscribe)
    /\ WF_vars(StartInitialBuild)
    /\ WF_vars(FinishInitialBuild)
    /\ WF_vars(Recv)
    /\ WF_vars(RecvDisconnected)
    /\ WF_vars(FinishBuild)

\* ------------------------------------------------------- merge_metadata
\* The fields merge_missing fills.
FilledKeys ==
    { "title", "author", "date", "lang", "babel_lang", "top_level_division",
      "numbersections", "documentclass", "mainfont", "sansfont" }

\* MetadataParser::merge_missing, the variant that overwrites set fields.
MergeMissingOverwrite(target, source) ==
    [k \in AllKeys |->
        IF k \in FilledKeys /\ source[k] # None THEN source[k] ELSE target[k]]

\* MetadataParser::merge_missing, the variant that fills per fragment: the
\* first fragment with any metadata supplies every field.
MergeMissingPerFragment(target, source) ==
    IF target = DefaultMetadata
    THEN [k \in AllKeys |-> IF k \in FilledKeys THEN source[k] ELSE None]
    ELSE target

\* MetadataParser::merge_missing
merge_missing(target, source) ==
    [k \in AllKeys |->
        IF k \in FilledKeys /\ target[k] = None THEN source[k] ELSE target[k]]

\* The first loop of merge_metadata: the metadata of the first file named
\* 00-setup.md, or the default.
SeedMetadata(fs) ==
    LET hits == {i \in 1..Len(fs) : fs[i].name = SetupName} IN
    IF hits = {} THEN DefaultMetadata
    ELSE fs[CHOOSE i \in hits : \A j \in hits : i <= j].metadata

RECURSIVE FillFrom(_, _, _)
\* The second loop of merge_metadata, from file i on.
FillFrom(acc, fs, i) ==
    IF i > Len(fs) THEN acc
    ELSE FillFrom(merge_missing(acc, fs[i].metadata), fs, i + 1)

\* MetadataParser::merge_metadata
merge_metadata(fs) == FillFrom(SeedMetadata(fs), fs, 1)

\* A caller passes the discovered fragments to merge_metadata.
Merge ==
    /\ ~mergeDone
    /\ merged' = merge_metadata(files)
    /\ mergeDone' = TRUE
    /\ UNCHANGED <<wvars, files, pvars, dvars, cvars, avars>>

MergeInit ==
    /\ pc = "idle"
    /\ queue = <<>>
    /\ senderAlive = TRUE
    /\ result = "none"
    /\ inflight = 0
    /\ cycles = 0
    /\ trigger = NoEvent
    /\ lastOutcome = "none"
    /\ sent = 0
    /\ enq = [b \in CycleIds |-> 0]
    /\ trig = [b \in CycleIds |-> 0]
    /\ watchErrLogged = FALSE
    /\ \E names \in SortedNameLists, K \in KeyPairs :
          \E mds \in [1..Len(names) -> FrontMatters(K)] :
             files = [i \in 1..Len(names) |-> MarkdownFile(names[i], mds[i])]
    /\ merged = DefaultMetadata
    /\ mergeDone = FALSE
    /\ ParseIdle
    /\ DiscoverIdle
    /\ CmdIdle
    /\ ArgsIdle

MergeNext == Merge

MergeSpec == MergeInit /\ [][MergeNext]_vars

\* --------------------------------------------------- extract_frontmatter
\* The watch session has not started.
WatchIdle ==
    /\ pc = "idle"
    /\ queue = <<>>
    /\ senderAlive = TRUE
    /\ result = "none"
    /\ inflight = 0
    /\ cycles = 0
    /\ trigger = NoEvent
    /\ lastOutcome = "none"
    /\ sent = 0
    /\ enq = [b \in CycleIds |-> 0]
    /\ trig = [b \in CycleIds |-> 0]
    /\ watchErrLogged = FALSE

\* No merge is requested.
MergeIdle ==
    /\ files = <<>>
    /\ merged = DefaultMetadata
    /\ mergeDone = FALSE

\* parse_file hands the content it read to extract_frontmatter.
Parse ==
    /\ ~parseDone
    /\ parsed' \in extract_frontmatter(content)
    /\ parseDone' = TRUE
    /\ UNCHANGED <<wvars, mvars, content, dvars, cvars, avars>>

ParseInit ==
    /\ WatchIdle
    /\ MergeIdle
    /\ content \in Contents
    /\ parsed = ParseErr
    /\ parseDone = FALSE
    /\ DiscoverIdle
    /\ CmdIdle
    /\ ArgsIdle

ParseNext == Parse

ParseSpec == ParseInit /\ [][ParseNext]_vars

\* ------------------------------------------------------------ discover_all
\* A caller runs discover_all over the project root: the walk yields the
\* entries in some order and every file read parses to one of the results
\* parse_file can give.
Discover ==
    /\ \E eligible \in {Eligible(dir, exclude_files)} :
          \E order \in WalkOrders(DOMAIN dir), parses \in ParseChoices(dir, DOMAIN dir) :
              found' = discover_all(eligible, order, parses)
    /\ UNCHANGED <<wvars, mvars, pvars, dir, exclude_files, cvars, avars>>

\* discover_all when an `entry?` of one of its walks is an error.
DiscoverWalkFails ==
    /\ found' = DiscoverErr("walkdir")
    /\ UNCHANGED <<wvars, mvars, pvars, dir, exclude_files, cvars, avars>>

DiscoverInit ==
    /\ WatchIdle
    /\ MergeIdle
    /\ ParseIdle
    /\ dir \in Roots
    /\ exclude_files \in ExcludeLists
    /\ found = NoResult
    /\ CmdIdle
    /\ ArgsIdle

DiscoverNext == Discover \/ DiscoverWalkFails

DiscoverSpec == DiscoverInit /\ [][DiscoverNext]_vars

\* ------------------------------------------------------------ builder.build
\* build(files, output_path) up to the start of the converter: merge the
\* metadata, find the template, build the argument list.  Every build cycle
\* runs it again on the same project.
BuildArgs ==
    /\ merged' = merge_metadata(files)
    /\ \E template \in FindTemplate(builder, templates) :
          args' = build_pandoc_args(builder, files, merge_metadata(files), template)
    /\ argsDone' = TRUE
    /\ mergeDone' = TRUE
    /\ UNCHANGED <<wvars, files, pvars, dvars, cvars, builder, templates>>

ArgsInit ==
    /\ WatchIdle
    /\ ParseIdle
    /\ DiscoverIdle
    /\ CmdIdle
    /\ \E names \in ArgNameLists, K \in ArgKeySets :
          \E mds \in [1..Len(names) -> ArgFrontMatters(K)] :
             files = [i \in 1..Len(names) |-> MarkdownFile(names[i], mds[i])]
    /\ merged = DefaultMetadata
    /\ mergeDone = FALSE
    /\ builder \in Formats
    /\ templates \in TemplateDirs
    /\ args = <<>>
    /\ argsDone = FALSE

ArgsNext == BuildArgs

ArgsSpec == ArgsInit /\ [][ArgsNext]_vars

\* ----------------------------------------------------------- the commands
\* The command ends with result e and Build message m.
Finish(e, m) ==
    /\ exit' = e
    /\ message' = m
    /\ step' = "done"

\* discovery.discover_all() of main and of build_format.
RunDiscovery ==
    /\ step = "discover"
    /\ found' \in DiscoverResults(dir, exclude_files)
    /\ step' = "discovered"
    /\ UNCHANGED <<wvars, mvars, pvars, avars, dir, exclude_files>>
    /\ UNCHANGED <<cmd, tools, exit, message, invoked, artifacts, todo, outputDir, counted>>
    /\ UNCHANGED <<stderr, detail, builds>>

\* Commands::Status after discover_all: print the counts, or return the error.
StatusReport ==
    /\ step = "discovered"
    /\ cmd.entry = "status"
    /\ IF found.ok
       THEN /\ counted' = Len(found.markdown_files)
            /\ Finish("ok", "none")
       ELSE /\ counted' = counted
            /\ Finish(ErrorOf(found.err), "none")
    /\ UNCHANGED <<wvars, mvars, pvars, dvars, avars>>
    /\ UNCHANGED <<cmd, tools, invoked, artifacts, todo, outputDir, stderr, detail, builds>>

\* Commands::Build and build_format after discover_all, the variant without
\* the test for an empty fragment list.
CheckFragmentsNoEmptyTest ==
    /\ step = "discovered"
    /\ cmd.entry \in {"build", "watch"}
    /\ IF ~found.ok THEN Finish(ErrorOf(found.err), "none")
       ELSE /\ step' = IF cmd.entry = "build" THEN "validate" ELSE "ensure"
            /\ UNCHANGED <<exit, message>>
    /\ UNCHANGED <<wvars, mvars, pvars, dvars, avars>>
    /\ UNCHANGED <<cmd, tools, invoked, artifacts, todo, outputDir, counted>>
    /\ UNCHANGED <<stderr, detail, builds>>

\* Commands::Build and build_format after discover_all: `?` on the result,
\* then the test for an empty fragment list.  Only main validates the tools.
CheckFragments ==
    /\ step = "discovered"
    /\ cmd.entry \in {"build", "watch"}
    /\ IF ~found.ok THEN Finish(ErrorOf(found.err), "none")
       ELSE IF found.markdown_files = <<>> THEN Finish("Build", "no_markdown")
       ELSE /\ step' = IF cmd.entry = "build" THEN "validate" ELSE "ensure"
            /\ UNCHANGED <<exit, message>>
    /\ UNCHANGED <<wvars, mvars, pvars, dvars, avars>>
    /\ UNCHANGED <<cmd, tools, invoked, artifacts, todo, outputDir, counted>>
    /\ UNCHANGED <<stderr, detail, builds>>

\* DependencyChecker::validate_for_build(format)? in Commands::Build.
Validate ==
    /\ step = "validate"
    /\ LET r == validate_for_build(cmd.format, tools) IN
       IF r = "ok"
       THEN /\ step' = "ensure"
            /\ UNCHANGED <<exit, message>>
       ELSE Finish(r, IF r = "Build" THEN "failed_to_execute" ELSE "none")
    /\ UNCHANGED <<wvars, mvars, pvars, dvars, avars>>
    /\ UNCHANGED <<cmd, tools, invoked, artifacts, todo, outputDir, counted>>
    /\ UNCHANGED <<stderr, detail, builds>>

\* builder.ensure_output_dir()
EnsureOutputDir ==
    /\ step = "ensure"
    /\ outputDir' = TRUE
    /\ todo' = BuildersOf(cmd.format)
    /\ step' = "build"
    /\ UNCHANGED <<wvars, mvars, pvars, dvars, avars>>
    /\ UNCHANGED <<cmd, tools, exit, message, invoked, artifacts, counted>>
    /\ UNCHANGED <<stderr, detail, builds>>

\* builder.build(files, output_path) of the next builder: the converter fails
\* to start (a Build error), or runs and exits with zero (the artifact is
\* written) or with another status (a Build error).
RunBuilder ==
    /\ step = "build"
    /\ todo # <<>>
    /\ LET format == Head(todo) IN
       IF tools["pandoc"] # "ok"
       THEN /\ Finish("Build", "failed_to_execute")
            /\ builds' = Append(builds, BuildRecord(format, FALSE, "none", "Build"))
            /\ UNCHANGED <<invoked, artifacts, todo, stderr, detail>>
       ELSE /\ invoked' = Append(invoked, format)
            /\ \E status \in ExitStatuses(format, tools) :
                 IF status = "zero"
                 THEN /\ artifacts' = artifacts \cup {format}
                      /\ todo' = Tail(todo)
                      /\ builds' = Append(builds, BuildRecord(format, TRUE, "zero", "ok"))
                      /\ IF Tail(todo) = <<>> THEN Finish("ok", "none")
                         ELSE UNCHANGED <<exit, message, step>>
                      /\ UNCHANGED <<stderr, detail>>
                 ELSE /\ \E err \in ErrStreams :
                            /\ stderr' = err
                            /\ detail' = from_utf8_lossy(err)
                      /\ Finish("Build", "pandoc_failed")
                      /\ builds' = Append(builds, BuildRecord(format, TRUE, "nonzero", "Build"))
                      /\ UNCHANGED <<artifacts, todo>>
    /\ UNCHANGED <<wvars, mvars, pvars, dvars, avars>>
    /\ UNCHANGED <<cmd, tools, outputDir, counted>>

CmdInit ==
    /\ WatchIdle
    /\ MergeIdle
    /\ ParseIdle
    /\ dir \in CmdRoots
    /\ exclude_files = <<Pattern_README>>
    /\ found = NoResult
    /\ cmd \in Commands
    /\ tools \in ToolSets
    /\ step = "discover"
    /\ exit = "none"
    /\ message = "none"
    /\ invoked = <<>>
    /\ artifacts = {}
    /\ todo = <<>>
    /\ outputDir = FALSE
    /\ counted = -1
    /\ stderr = <<>>
    /\ detail = <<>>
    /\ builds = <<>>
    /\ ArgsIdle

CmdNext ==
    \/ RunDiscovery
    \/ StatusReport
    \/ CheckFragments
    \/ Validate
    \/ EnsureOutputDir
    \/ RunBuilder

CmdSpec == CmdInit /\ [][CmdNext]_vars

\* ----------------------------------------------- vocabulary of the claims
\* A path whose extension is on the allow-list md, yaml, yml.
AllowListed(path) == Extension(path) \in {"md", "yaml", "yml"}

\* An event carrying at least one allow-listed path.
HasAllowListedPath(e) == \E i \in 1..Len(e.paths) : AllowListed(e.paths[i])

\* A creation or modification event carrying an allow-listed path.
Qualifying(e) == e.kind \in {"Create", "Modify"} /\ HasAllowListedPath(e)

\* This step is a successful rx.recv() of the loop.
RecvStep == pc = "watching" /\ Len(queue') < Len(queue)

\* Qualifying events sent during build cycle b that are still in the channel.
PendingFrom(b) ==
    Cardinality({i \in 1..Len(queue) : queue[i].during = b /\ Qualifying(queue[i])})

\* A qualifying event sent while a build cycle was executing is in the channel.
PendingQualifying ==
    \E i \in 1..Len(queue) : Qualifying(queue[i]) /\ queue[i].during >= 1

\* ------------------------------------------------------------------ claims
\* C1: a failing build cycle of the loop is only reported: the step that ends
\* it leads back to Watching with watch_and_build still running, and a
\* qualifying event received after a failed cycle starts a build cycle.
C1_FailedCycleKeepsWatching ==
    [][ /\ (pc = "building" /\ pc' # "building")
            => (pc' = "watching" /\ result' = "none")
        /\ (RecvStep /\ lastOutcome = "err" /\ Qualifying(Head(queue)))
            => (pc' = "building" /\ cycles' = cycles + 1) ]_vars

\* C1 witness: a build cycle runs although the cycle before it failed.
C1_Witness == pc = "building" /\ lastOutcome = "err"

\* C2: once the watch is set up, the start-up build cycle is followed by
\* Watching whatever its outcome, and watch_and_build returns only from
\* Watching with the channel closed and empty.
C2_StartupAlwaysEntersWatching ==
    [][ /\ (pc = "initial_build" /\ pc' # pc) => pc' = "watching"
        /\ (cycles >= 1 /\ pc # "returned" /\ pc' = "returned")
            => (pc = "watching" /\ ~senderAlive /\ queue = <<>>) ]_vars

\* C3: at most one build_format call is in flight at any time.
C3_OneBuildInFlight == inflight <= 1

\* C3 witness: a build cycle of the loop is running and the channel holds
\* qualifying events, all of them sent during that cycle.
C3_Witness ==
    /\ pc = "building"
    /\ inflight = 1
    /\ queue # <<>>
    /\ \A i \in 1..Len(queue) : queue[i].during = cycles /\ Qualifying(queue[i])

\* C4 as stated: a received event of any kind that carries an allow-listed
\* path starts a build cycle.
C4_AnyKindStartsBuild ==
    [][ (RecvStep /\ HasAllowListedPath(Head(queue))) => pc' = "building" ]_vars

\* C4 amended: a received Create or Modify event that carries an allow-listed
\* path starts exactly one build cycle, every other received event starts
\* none, and the end of the cycle leads back to Watching.
C4_CreateModifyStartsBuild ==
    [][ /\ RecvStep =>
              IF Head(queue).kind \in {"Create", "Modify"}
                 /\ HasAllowListedPath(Head(queue))
              THEN pc' = "building" /\ cycles' = cycles + 1 /\ inflight' = 1
              ELSE pc' = "watching" /\ cycles' = cycles /\ inflight' = 0
        /\ (pc = "building" /\ pc' # pc) => (pc' = "watching" /\ cycles' = cycles)
      ]_vars

\* C4 witness: a build cycle started by a Create event whose paths are all
\* allow-listed.
C4_Witness ==
    /\ pc = "building"
    /\ trigger = [kind |-> "Create", paths |-> <<"meta.yml", "01-intro.md">>]

\* C5: after the start-up cycle, a build cycle starts only in the step that
\* receives an event carrying at least one allow-listed path.
C5_BuildNeedsAllowListedPath ==
    [][ (cycles >= 1 /\ cycles' > cycles)
            => (RecvStep /\ HasAllowListedPath(Head(queue))) ]_vars

\* C5 witness: a build cycle started by an event whose first path is not
\* allow-listed and whose second path is.
C5_Witness ==
    /\ pc = "building"
    /\ trigger.paths = <<"notes.txt", "refs.yaml">>

\* C6: every qualifying event sent during a build cycle and still in the
\* channel is eventually followed by the start of a further build cycle.
C6_QueuedEventEventuallyBuilds ==
    \A n \in CycleIds : (PendingQualifying /\ cycles = n) ~> (cycles > n)

\* C7 as stated: of k > 1 qualifying events sent during one build cycle,
\* fewer than k start a build cycle.
C7_BurstIsDrained ==
    \A b \in CycleIds \ {0} : enq[b] > 1 => trig[b] < enq[b]

\* C7 amended: every qualifying event sent during a build cycle and received
\* since has started a build cycle of its own, so k such events lead to k
\* further cycles once they are received.
C7_OneCyclePerReceivedEvent ==
    \A b \in CycleIds : trig[b] + PendingFrom(b) = enq[b]

\* C7 witness: two qualifying events sent during one build cycle have started
\* two build cycles.
C7_Witness == \E b \in CycleIds \ {0} : enq[b] = 2 /\ trig[b] = 2

\* C8 as stated, for the Err handed to the callback: it leads to Stopped.
C8_CallbackErrStops == watchErrLogged ~> (pc = "returned")

\* C8 amended: once every sender of the channel is gone, watch_and_build
\* eventually returns.
C8_ClosedChannelStops == (~senderAlive) ~> (pc = "returned")

\* C8 witness: the loop was left through rx.recv() = Err after build cycles.
C8_Witness ==
    /\ pc = "returned"
    /\ result = "ok"
    /\ ~senderAlive
    /\ cycles >= 2

\* The reserved fragment, if the list has one, leaves key k unset.
SetupLeavesUnset(k) ==
    \A i \in 1..Len(files) :
        files[i].name = SetupName => files[i].metadata[k] = None

\* The value of key k in the first fragment of the list that sets it, None
\* when no fragment does.
FirstValue(fs, k) ==
    LET S == {i \in 1..Len(fs) : fs[i].metadata[k] # None} IN
    IF S = {} THEN None
    ELSE fs[CHOOSE i \in S : \A j \in S : i <= j].metadata[k]

\* C9: every key the fragment named 00-setup.md sets has that fragment's
\* value in the merged metadata, wherever the fragment stands in the list and
\* whatever the other fragments give the key.
C9_SetupTakesPrecedence ==
    mergeDone =>
        \A i \in 1..Len(files) : \A k \in AllKeys :
            (files[i].name = SetupName /\ files[i].metadata[k] # None)
                => merged[k] = files[i].metadata[k]

\* C9 witness: a fragment sorted before 00-setup.md and one sorted after it
\* both give a key a value other than the reserved fragment's.
C9_Witness ==
    /\ mergeDone
    /\ Len(files) = 3
    /\ files[2].name = SetupName
    /\ \E k \in AllKeys :
          /\ files[2].metadata[k] # None
          /\ files[1].metadata[k] \notin {None, files[2].metadata[k]}
          /\ files[3].metadata[k] \notin {None, files[2].metadata[k]}
          /\ merged[k] = files[2].metadata[k]

\* C10: every key of the schema that the reserved fragment leaves unset has,
\* in the merged metadata, the first value a fragment gives it in list order,
\* and is unset only if no fragment sets it.
C10_FirstValueFillsEveryKey ==
    mergeDone =>
        \A k \in AllKeys :
            SetupLeavesUnset(k) => merged[k] = FirstValue(files, k)

\* The fragments with every key but k erased.
KeyColumn(fs, k) ==
    [i \in 1..Len(fs) |-> MarkdownFile(fs[i].name, SingleKey(k, fs[i].metadata[k]))]

\* The keys some fragment sets.
KeysInUse(fs) == UNION {KeysSet(fs[i].metadata) : i \in 1..Len(fs)}

\* Fragment i is the only one that sets k.
OnlySetter(fs, i, k) ==
    /\ fs[i].metadata[k] # None
    /\ \A j \in 1..Len(fs) : j # i => fs[j].metadata[k] = None

\* C11: the fill is per key.  The merged value of a key is what the merge
\* gives when every other key is erased from the fragments, and two keys the
\* fill covers, each set by one fragment only, both reach the merged
\* metadata with the values of their fragments.
C11_FillIsPerKey ==
    mergeDone =>
        /\ \A k \in KeysInUse(files) : merged[k] = merge_metadata(KeyColumn(files, k))[k]
        /\ \A i, j \in 1..Len(files) : \A k1, k2 \in FilledKeys :
              (i # j /\ k1 # k2 /\ OnlySetter(files, i, k1) /\ OnlySetter(files, j, k2))
                  => /\ merged[k1] = files[i].metadata[k1]
                     /\ merged[k2] = files[j].metadata[k2]

\* C11 witness: 00-setup.md sets only title, a later fragment sets only
\* author, and the merged metadata has both.
C11_Witness ==
    /\ mergeDone
    /\ \E i, j \in 1..Len(files) :
          /\ i < j
          /\ files[i].name = SetupName
          /\ KeysSet(files[i].metadata) = {"title"}
          /\ KeysSet(files[j].metadata) = {"author"}
          /\ merged["title"] = files[i].metadata["title"]
          /\ merged["author"] = files[j].metadata["author"]

\* The names of a fragment list, in order.
NamesOf(fs) == [i \in 1..Len(fs) |-> fs[i].name]

RECURSIVE DigitRunValue(_, _, _)
\* The number the digit run of n at position i denotes, after acc.
DigitRunValue(n, i, acc) ==
    IF i <= Len(n) /\ IsDigit(n[i])
    THEN DigitRunValue(n, i + 1, acc * 10 + (n[i] - 48))
    ELSE acc

\* The number a name starts with, -1 when it starts with no digit.
LeadingNumber(n) ==
    IF Len(n) >= 1 /\ IsDigit(n[1]) THEN DigitRunValue(n, 1, 0) ELSE -1

C13_SameOrderEveryPass ==
    [][(found.ok /\ found'.ok)
          => /\ NamesOf(found'.markdown_files) = NamesOf(found.markdown_files)
             /\ merge_metadata(found'.markdown_files)
                   = merge_metadata(found.markdown_files)]_vars

\* The names a pattern matches, listed by hand.
PatternMatches(p, n) ==
    \/ p = Pattern_README /\ n \in {Name_README, Name_README_md}
    \/ p = Pattern_draft /\ n = Name_draft

\* C14: when discover_all returns a list, the list holds exactly the .md
\* entries of the root whose name no pattern of exclude_files matches.
C14_ListedIffNotExcluded ==
    found.ok =>
        \A n \in DOMAIN dir :
            (\E i \in 1..Len(found.markdown_files) : found.markdown_files[i].name = n)
                <=> /\ n # Name_notes_txt
                    /\ ~\E k \in 1..Len(exclude_files) : PatternMatches(exclude_files[k], n)

\* C14 witness: the root holds README_md.md, [draft.md and 02-chapter.md, the
\* patterns are "README.md" and "[draft", and the list is 02-chapter.md alone.
C14_Witness ==
    /\ found.ok
    /\ DOMAIN dir = {Name_README_md, Name_draft, Name_02_chapter}
    /\ exclude_files = <<Pattern_README, Pattern_draft>>
    /\ NamesOf(found.markdown_files) = <<Name_02_chapter>>

\* A fragment of the root that no pattern excludes has two delimiters around
\* content that is not YAML.
HasMalformedFragment ==
    \E n \in DOMAIN dir :
        /\ dir[n] = ContentMalformed
        /\ n # Name_notes_txt
        /\ ~\E k \in 1..Len(exclude_files) : PatternMatches(exclude_files[k], n)

C18_StatusCountsMalformed ==
    (/\ cmd.entry = "status"
     /\ step = "done"
     /\ HasMalformedFragment
     /\ found.err # "walkdir")
        => (exit = "ok" /\ counted >= 1)

\* C20: a build or watch cycle that has fragments and cannot find or start
\* the converter ends with the Dependency error.
C20_MissingConverterIsDependency ==
    (/\ cmd.entry \in {"build", "watch"}
     /\ step = "done"
     /\ found.ok
     /\ found.markdown_files # <<>>
     /\ tools["pandoc"] # "ok")
        => exit = "Dependency"

\* The name of a metadata key on the command line of the converter.
FlagKey(k) == IF k = "babel_lang" THEN "babel-lang" ELSE k

\* The invocation passes value v for key k as a metadata flag.
PassesMetadata(as, k, v) ==
    \E i \in 1..(Len(as) - 1) :
        as[i] = Flag("--metadata") /\ as[i + 1] = KeyValue(FlagKey(k), v)

\* C19: for each builder, every key the merged metadata populates is passed
\* to the converter as a metadata flag with its merged value.
C19_EveryKeyIsPassed ==
    argsDone => \A k \in KeysSet(merged) : PassesMetadata(args, k, merged[k])

RECURSIVE Utf8Encode(_)
\* The UTF-8 bytes of a text given as code points.
Utf8Encode(t) ==
    IF t = <<>> THEN <<>>
    ELSE LET c == Head(t) IN
         (IF c < 128 THEN <<c>>
          ELSE IF c < 2048 THEN <<192 + (c \div 64), 128 + (c % 64)>>
          ELSE <<224 + (c \div 4096), 128 + ((c \div 64) % 64), 128 + (c % 64)>>)
         \o Utf8Encode(Tail(t))

\* The last call of builder.build ended on a non-zero exit of the converter.
LastBuildFailedOnExit ==
    /\ builds # <<>>
    /\ builds[Len(builds)].status = "nonzero"

\* Every call of builder.build returned Ok exactly when the converter was
\* started and exited with zero.
OkIffStartedAndZero ==
    \A i \in 1..Len(builds) :
        builds[i].result = "ok" <=> (builds[i].started /\ builds[i].status = "zero")

\* C21 as stated: build succeeds exactly when the converter started and
\* exited with zero, and after a non-zero exit the Build message holds the
\* bytes of the error stream unmodified.
C21_MessageHoldsStderrVerbatim ==
    /\ OkIffStartedAndZero
    /\ LastBuildFailedOnExit
          => /\ exit = "Build"
             /\ message = "pandoc_failed"
             /\ Utf8Encode(detail) = stderr

\* C21, amended: build succeeds exactly when the converter started and exited
\* with zero; after a non-zero exit the Build message holds the error stream
\* decoded as UTF-8: unmodified when the stream is well-formed UTF-8, with
\* U+FFFD in place of the bytes that are not.
C21_MessageHoldsDecodedStderr ==
    /\ OkIffStartedAndZero
    /\ LastBuildFailedOnExit
          => /\ exit = "Build"
             /\ message = "pandoc_failed"
             /\ (\A i \in 1..Len(stderr) : stderr[i] < 128) => detail = stderr
             /\ stderr = <<195, 169>> => detail = <<233>>
             /\ Utf8Encode(detail) # stderr => \E i \in 1..Len(detail) : detail[i] = 65533

\* C21 witness: the second builder of `build all` failed on a non-zero exit
\* with the error stream "e" followed by the byte 0xFF.
C21_Witness ==
    /\ Len(builds) = 2
    /\ builds[1].result = "ok"
    /\ LastBuildFailedOnExit
    /\ stderr = <<101, 255>>
    /\ detail = <<101, 65533>>
    /\ exit = "Build"

\* The argument list holds the literal argument t.
HasFlag(as, t) == \E i \in 1..Len(as) : as[i] = Flag(t)

\* The merged metadata sets numbersections to false.
NumberingDisabled == merged["numbersections"] \in (1..MaxVal) \ {1}

\* C22: --number-sections is in the invocation of every builder exactly when
\* the merged metadata does not set numbersections to false; it is there when
\* no fragment sets the key.
C22_NumberSectionsUnlessDisabled ==
    argsDone =>
        /\ HasFlag(args, "--number-sections") <=> ~NumberingDisabled
        /\ (\A i \in 1..Len(files) : files[i].metadata["numbersections"] = None)
              => HasFlag(args, "--number-sections")

\* C22 witness: 00-setup.md sets numbersections to false, a later fragment
\* sets it to true, and the DOCX invocation has no --number-sections.
C22_Witness ==
    /\ argsDone
    /\ builder = "docx"
    /\ Len(files) = 2
    /\ files[1].metadata["numbersections"] = 2
    /\ files[2].metadata["numbersections"] = 1
    /\ ~HasFlag(args, "--number-sections")

\* C23: DocumentMetadata::default() and the merge of no fragments both leave
\* title and author unset and have numbersections set to true.
C23_EmptyMetadataNumbersSections ==
    (mergeDone /\ files = <<>>)
        => /\ DefaultMetadata["title"] = None
           /\ DefaultMetadata["author"] = None
           /\ DefaultMetadata["numbersections"] = 1
           /\ merged["title"] = None
           /\ merged["author"] = None
           /\ merged["numbersections"] = 1

\* The babel language the table gives a primary subtag.
BabelTable ==
    [s \in {"de", "fr", "es", "it", "pt", "nl", "ru"} |->
        CASE s = "de" -> "ngerman" [] s = "fr" -> "french" [] s = "es" -> "spanish"
          [] s = "it" -> "italian" [] s = "pt" -> "portuguese" [] s = "nl" -> "dutch"
          [] OTHER -> "russian"]

\* The babel-lang arguments of an argument list.
BabelArgs(as) == {i \in 1..Len(as) : as[i].key = "babel-lang"}

\* C24: in the PDF invocation, lang without babel_lang gives one babel-lang
\* derived from the primary subtag of lang by the table, english for every
\* other subtag; a set babel_lang is passed as it is and nothing is derived;
\* no invocation has two babel-lang arguments.
C24_BabelLangDerivedOrGiven ==
    (argsDone /\ builder = "pdf") =>
        LET primary == LangTags[merged["lang"]][1]
            derived == IF primary \in DOMAIN BabelTable
                       THEN BabelTable[primary] ELSE "english"
        IN  /\ Cardinality(BabelArgs(args)) <= 1
            /\ (merged["lang"] # None /\ merged["babel_lang"] = None)
                  => \E i \in BabelArgs(args) : args[i] = KeyWord("babel-lang", derived)
            /\ merged["babel_lang"] # None
                  => \A i \in BabelArgs(args) :
                        args[i] = KeyValue("babel-lang", merged["babel_lang"])
            /\ merged["babel_lang"] # None => BabelArgs(args) # {}

\* C24 witness: the fragments give lang de-AT and no babel_lang, and the PDF
\* invocation carries babel-lang=ngerman.
C24_Witness ==
    /\ argsDone
    /\ builder = "pdf"
    /\ merged["lang"] # None
    /\ LangTags[merged["lang"]] = <<"de", "AT">>
    /\ merged["babel_lang"] = None
    /\ \E i \in 1..Len(args) : args[i] = KeyWord("babel-lang", "ngerman")

\* The positional inputs of an argument list: the positions that hold a path.
PathPositions(as) == {i \in 1..Len(as) : as[i].path # <<>>}

\* C25: every invocation has --standalone and --citeproc, has the fragment
\* paths once each and in the order of the fragments as the arguments right
\* before its last two, none of them earlier, and ends with -o and the
\* output path.
C25_InputsThenOutput ==
    argsDone =>
        LET n == Len(args)
            k == Len(files)
        IN  /\ HasFlag(args, "--standalone")
            /\ HasFlag(args, "--citeproc")
            /\ n >= k + 2
            /\ args[n - 1] = Flag("-o")
            /\ args[n] = Flag(OutputPath(builder))
            /\ PathPositions(args) = (n - 1 - k)..(n - 2)
            /\ \A i \in 1..k : args[n - 2 - k + i] = PathArg(files[i].name)

\* C25 witness: the HTML invocation of two fragments with a template: the
\* template option comes before the two paths, -o and the output path last.
C25_Witness ==
    /\ argsDone
    /\ builder = "html"
    /\ Len(files) = 2
    /\ HasFlag(args, "--template")
    /\ args[Len(args) - 3] = PathArg(Name_00_setup)
    /\ args[Len(args) - 2] = PathArg(Name_02_chapter)
    /\ args[Len(args)] = Flag("output/document.html")

\* C26: two runs of build on the same format, fragments and templates
\* directory hand the converter the same argument list, template path
\* included.
C26_SameArgsEveryRun ==
    [][(argsDone /\ argsDone') => args' = args]_vars

\* Discovery of the running build found no fragment.
NoFragmentFound ==
    /\ cmd.entry \in {"build", "watch"}
    /\ step # "discover"
    /\ found.ok
    /\ found.markdown_files = <<>>

\* C27: a build whose discovery finds no fragment fails with the Build error
\* "No markdown files found" without validating the tools, creating the
\* output directory or starting the converter, whatever the state of the
\* tools.
C27_NoFragmentFailsFirst ==
    NoFragmentFound =>
        /\ step \in {"discovered", "done"}
        /\ ~outputDir
        /\ invoked = <<>>
        /\ builds = <<>>
        /\ artifacts = {}
        /\ step = "done" => (exit = "Build" /\ message = "no_markdown")

\* C27 witness: `build pdf` in a root that holds only the excluded README.md,
\* on a machine without the converter, ended with "No markdown files found".
C27_Witness ==
    /\ NoFragmentFound
    /\ cmd = [entry |-> "build", format |-> "pdf"]
    /\ dir # <<>>
    /\ tools["pandoc"] = "missing"
    /\ step = "done"
    /\ exit = "Build"
    /\ message = "no_markdown"

RECURSIVE QualifyingSentUpTo(_)
\* Qualifying events handed to the channel during the cycles 0..b (0 stands
\* for the time no cycle runs).
QualifyingSentUpTo(b) == IF b < 0 THEN 0 ELSE enq[b] + QualifyingSentUpTo(b - 1)

\* Qualifying events still in the channel.
QualifyingQueued == Cardinality({i \in 1..Len(queue) : Qualifying(queue[i])})

\* Qualifying events rx.recv() has returned so far.
QualifyingConsumed == QualifyingSentUpTo(MaxEvents + 1) - QualifyingQueued

\* C28: a consumed event starts one build cycle when it is a Create or Modify
\* event with at least one allow-listed path, however many of its paths are
\* allow-listed, and none otherwise; from the start-up cycle on, the build
\* cycles started so far are the start-up cycle and one per consumed
\* qualifying event, and before it no event is consumed.
C28_OneCyclePerQualifyingEvent ==
    /\ [](cycles = (IF cycles = 0 THEN 0 ELSE 1) + QualifyingConsumed)
    /\ [][RecvStep =>
            cycles' = cycles + (IF Qualifying(Head(queue)) THEN 1 ELSE 0)]_vars

\* C28 witness: the one event consumed so far carries two allow-listed paths,
\* and the cycle it started is the second of the session.
C28_Witness ==
    /\ pc = "building"
    /\ trigger.paths = <<"meta.yml", "01-intro.md">>
    /\ QualifyingConsumed = 1
    /\ cycles = 2

\* Every path of the event is one a build cycle writes.
OwnWrite(e) == \A i \in 1..Len(e.paths) : e.paths[i] \in WrittenPaths

\* The session never left set-up, or it ended because the channel closed.
EndedWithoutFailure == pc = "returned" /\ (cycles = 0 \/ result = "ok")

\* C29: no path a build cycle writes passes should_rebuild, so a consumed
\* event for such a write starts no build cycle; and, the events being
\* finitely many, a session that was set up and whose channel stays open ends
\* up in Watching with an empty channel for good.
C29_SettlesInWatching ==
    /\ [](\A p \in WrittenPaths : ~should_rebuild(p))
    /\ [][(RecvStep /\ OwnWrite(Head(queue))) => (cycles' = cycles /\ pc' = "watching")]_vars
    /\ (<>[](pc = "watching" /\ queue = <<>>)) \/ <>EndedWithoutFailure

\* The entries of the root a pattern of exclude_files matches.
ExcludedEntries ==
    {n \in DOMAIN dir : \E k \in 1..Len(exclude_files) : PatternMatches(exclude_files[k], n)}

\* The root without its excluded entries.
RootWithoutExcluded == [n \in (DOMAIN dir) \ ExcludedEntries |-> dir[n]]

\* C30: what discover_all returns for a root is something it can return for
\* the root without the excluded entries; in particular it fails on
\* front-matter only when an entry that is not excluded is malformed.
C30_ExcludedFilesAreNotParsed ==
    found # NoResult =>
        /\ found \in DiscoverResults(RootWithoutExcluded, exclude_files)
        /\ found = DiscoverErr("yaml")
              => \E n \in DOMAIN RootWithoutExcluded : dir[n] = ContentMalformed

\* C30 witness: the root holds the excluded README.md with front-matter that
\* is not YAML and 02-chapter.md, and discover_all returned 02-chapter.md.
C30_Witness ==
    /\ found.ok
    /\ DOMAIN dir = {Name_README, Name_02_chapter}
    /\ dir[Name_README] = ContentMalformed
    /\ Name_README \in ExcludedEntries
    /\ NamesOf(found.markdown_files) = <<Name_02_chapter>>

\* The content begins with a delimiter line: "---" and a line break.
BeginsWithDelimiterLine(c) == Len(c) >= 2 /\ c[1] = "---" /\ c[2] = "\n"

\* The first line of the content is "---", ended by a line break or by the
\* end of the content.
FirstLineIsDelimiter(c) ==
    Len(c) >= 1 /\ c[1] = "---" /\ (Len(c) = 1 \/ c[2] = "\n")

\* A later line of the content is the delimiter "---".
HasClosingDelimiterLine(c) ==
    \E i \in 3..Len(c) :
        c[i] = "---" /\ c[i - 1] = "\n" /\ (i = Len(c) \/ c[i + 1] = "\n")

\* C15: a content that does not begin with the delimiter line "---" parses
\* successfully, with every key unset and the whole content as body.
C15_NoFrontmatterParsesEmpty ==
    (parseDone /\ ~FirstLineIsDelimiter(content))
        => parsed = ParseOk(DefaultMetadata, content)

\* C15 witness: a content that holds YAML lines and a delimiter line further
\* down, but does not begin with one, was parsed.
C15_Witness ==
    /\ parseDone
    /\ Len(content) >= 4
    /\ content[1] = "title: A"
    /\ \E i \in 2..Len(content) : content[i] = "---"
    /\ parsed = ParseOk(DefaultMetadata, content)

\* C16: a content that begins with the delimiter line and has no closing
\* delimiter line fails to parse.
C16_UnclosedFrontmatterFails ==
    (parseDone /\ BeginsWithDelimiterLine(content)
              /\ ~HasClosingDelimiterLine(content))
        => ~parsed.ok

====
